---- MODULE Spec2Model ----
(***************************************************************************)
(* Captain's Log (Obsidian plugin): the recording session of               *)
(* AudioRecordModal and the transcription pipeline of CaptainsLogPlugin.   *)
(*                                                                         *)
(* The specifications share the variables:                                *)
(*   Spec          the recording session (src/AudioRecordModal.ts)         *)
(*   SpecTimer     the session with its wall clock and interval timer      *)
(*   SpecPipeline  handleAudioRecording / transcribeRecording / settings   *)
(*                 (src/main.ts)                                           *)
(*   SpecResolver  findFilePath applied to bounded texts (src/main.ts)     *)
(*   SpecOverlap   the command run again while earlier invocations of it   *)
(*                 are suspended at their awaits (src/main.ts)             *)
(*   SpecPause     the timed session while it is recording and paused      *)
(*   SpecRace      overlapping record-and-transcribe flows while the user  *)
(*                 switches notes and edits the settings (src/main.ts)     *)
(*   SpecNewLine   getNextNewLine and the inline insertion (src/main.ts);  *)
(*                 FairNewLine is SpecNewLine with weak fairness           *)
(*   SpecGuard     the command while files are deleted under it;           *)
(*                 FairGuard adds that its awaits settle                   *)
(*   FairSpec      Spec, with the platform delivering its events           *)
(***************************************************************************)
EXTENDS Integers, Sequences, FiniteSets, TLC

(***************************************************************************)
(* Bounds of the model.                                                    *)
(***************************************************************************)
\* calls of startRecording (getUserMedia) in one modal session
MaxRec == 3
\* presses of Stop / Transcribe in one modal session
MaxStops == 2
\* fragments delivered by timeslice events that the buffer is let to hold
MaxChunks == 1
\* the wall clock runs from 0 to MaxTime milliseconds ...
MaxTime == 2000
\* ... and is observed every TimeStep milliseconds
TimeStep == 500

(***************************************************************************)
(* Program constants.                                                      *)
(***************************************************************************)
\* window.setInterval(..., 1000) and the divisor of Math.floor(x / 1000)
TickPeriod == 1000

RecIds == 1..MaxRec

VARIABLES
    \* ---- AudioRecordModal fields
    modalOpen,      \* the modal is on screen (Modal.open() .. Modal.close())
    mediaRecorder,  \* this.mediaRecorder: 0 is null, else a recorder id
    chunks,         \* this.chunks: fragments, each tagged with its recorder
    resolver,       \* the promise this.resolve / this.reject settle:
                    \*   -1 undefined, 0 the promise of open(), k the k-th stopRecording()
    isRecording,    \* this.isRecording
    intervalId,     \* this.intervalId !== null
    startTime,      \* this.startTime
    elapsedTime,    \* this.elapsedTime
    isResetting,    \* this.isResetting
    timerText,      \* this.timer.textContent, as the number of seconds shown
    \* ---- the platform: MediaRecorder objects, getUserMedia, promises, clock
    recState,       \* MediaRecorder.state of each recorder ("none" before it exists)
    stopListeners,  \* number of bound onStop listeners added to each recorder
    stopQueued,     \* stop() queued the task that fires dataavailable, then stop
    pendingAcq,     \* getUserMedia promises not yet settled
    nAcq,           \* getUserMedia calls made so far
    openP,          \* state of the promise returned by open()
    calls,          \* the stopRecording() calls: their promise and button
    nextTick,       \* when the interval callback is next due
    now,            \* Date.now()
    \* ---- observations used by the properties
    recordedMs,     \* time the held recorder spent recording since the last reset
    everAcquired,   \* some getUserMedia call of this session succeeded
    acqFailed,      \* some getUserMedia call of this session failed
    released,       \* the recorders a hardReset() released
    acqSinceReset,  \* some getUserMedia call succeeded since open() / the last hardReset()
    resetIdle,      \* Restart was clicked and play has not been clicked since
    \* ---- CaptainsLogPlugin and its collaborators (vault, workspace)
    settings,       \* this.settings (in memory)
    saved,          \* what saveSettings() last persisted (saveData)
    userPref,       \* the placement preference the user chose (loaded or set in the tab)
    vault,          \* the files of the vault, by normalised path
    folders,        \* the folders of the vault besides the root
    active,         \* the folder of the active markdown note, "none" without one
    hour,           \* Date.getHours()
    jobs,           \* the invocations of handleAudioRecording / commandGenerateTranscript
    nJobs,          \* how many invocations were started
    kept,           \* the files saved by sessions ended with the stop button
    writing,        \* this.writing
    transcript,     \* this.transcript: the job whose text it holds, 0 for ''
    notices,        \* user-visible messages shown (new Notice(...))
    \* ---- the text findFilePath is applied to
    doc,            \* the tokens of the note
    cursor,         \* the tokens before the cursor
    found,          \* the outcome of findFilePath
    \* ---- the editor getNextNewLine scans
    editor,         \* the lines of the active note, line 0 first
    scan            \* getNextNewLine(editor, ln): ln, newLine, where it is

modalVars == <<modalOpen, mediaRecorder, chunks, resolver, isRecording, isResetting>>
timerVars == <<intervalId, startTime, elapsedTime, timerText, nextTick>>
platVars  == <<recState, stopListeners, stopQueued, pendingAcq, nAcq>>
promVars  == <<openP, calls>>
obsVars   == <<recordedMs, everAcquired, acqFailed, released, acqSinceReset,
               resetIdle>>
sessVars  == <<modalVars, timerVars, platVars, promVars, obsVars, now>>

pipeVars  == <<settings, saved, userPref, vault, folders, active, hour, jobs, nJobs,
               kept, writing, transcript, notices>>
resVars   == <<doc, cursor, found, editor, scan>>
envVars   == <<pipeVars, resVars>>

vars == <<sessVars, pipeVars, resVars>>

(***************************************************************************)
(* The state after `new AudioRecordModal(app, handleAudioRecording,        *)
(* settings)`: the field initialisers of the class.                        *)
(***************************************************************************)
InitSession ==
    /\ modalOpen = FALSE
    /\ mediaRecorder = 0
    /\ chunks = <<>>
    /\ resolver = -1
    /\ isRecording = FALSE
    /\ intervalId = FALSE
    /\ startTime = 0
    /\ elapsedTime = 0
    /\ isResetting = FALSE
    /\ timerText = 0
    /\ recState = [r \in RecIds |-> "none"]
    /\ stopListeners = [r \in RecIds |-> 0]
    /\ stopQueued = [r \in RecIds |-> FALSE]
    /\ pendingAcq = 0
    /\ nAcq = 0
    /\ openP = "none"
    /\ calls = <<>>
    /\ nextTick = 0
    /\ now = 0
    /\ recordedMs = 0
    /\ everAcquired = FALSE
    /\ acqFailed = FALSE
    /\ released = {}
    /\ acqSinceReset = FALSE
    /\ resetIdle = FALSE

(***************************************************************************)
(* Paths.  A path string is the sequence of its segments between "/".  A   *)
(* segment is a record: t its kind, p its text, n its counter:             *)
(*   ""      the empty segment ("//x" and "/x" begin with empty segments)  *)
(*   "dir"   a folder name                                                 *)
(*   "note"  `Captain's Log <date>-<p>.md` (n = 1), `...-<p>-<n>.md`       *)
(*   "rec"   `recording-<date>-<p>.mp3` (n = 1), `...-<p>-<n>.mp3`         *)
(*   "audio" another audio file name; n = 1 marks its percent-encoded form *)
(***************************************************************************)
Seg(t, p, n) == [t |-> t, p |-> p, n |-> n]

EmptySeg == Seg("", "", 0)

Dir(name) == Seg("dir", name, 0)

NoteSeg(period, c) == Seg("note", period, c)

RecSeg(period, c) == Seg("rec", period, c)

AudioSeg(name) == Seg("audio", name, 0)

NonEmptySeg(sg) == sg # EmptySeg

\* normalizePath(): drops the empty segments (leading, trailing, doubled "/")
normalizePath(path) == SelectSeq(path, NonEmptySeg)

DecodeSeg(sg) == IF sg.t = "audio" THEN [sg EXCEPT !.n = 0] ELSE sg

\* decodeURI(): replaces the percent-escapes of every segment
decodeURI(path) == [i \in DOMAIN path |-> DecodeSeg(path[i])]

\* TFolder.path of the vault root is "/"
RootPath == <<EmptySeg, EmptySeg>>

\* DEFAULT_SETTINGS.recordingFilePath, "Captain's Log/recordings"
RecordingFolder == <<Dir("Captain's Log"), Dir("recordings")>>

\* the folder names used for notes
NotesFolder == <<Dir("notes")>>

LogsFolder == <<Dir("logs")>>

\* an audio file of the vault that notes link to
AudioA == <<AudioSeg("a.mp3")>>

AudioB == <<Dir("notes"), AudioSeg("b.wav")>>

\* the state of the plugin before any command ran, with no session
InitPipelineIdle ==
    /\ settings = [keepAudio |-> TRUE, includeAudioFileLink |-> FALSE,
                   insertTranscriptLocation |-> "newNote", defaultNoteFolder |-> <<>>,
                   recordingFilePath |-> RecordingFolder]
    /\ saved = settings
    /\ userPref = "newNote"
    /\ vault = {}
    /\ folders = {}
    /\ active = "none"
    /\ hour = 0
    /\ jobs = <<>>
    /\ nJobs = 0
    /\ kept = {}
    /\ writing = FALSE
    /\ transcript = 0
    /\ notices = {}

\* getNextNewLine has not been called
ScanIdle == [pc |-> "idle", ln |-> 0, newLine |-> 0, lines0 |-> <<>>]

InitResolverIdle ==
    /\ doc = <<>>
    /\ cursor = 0
    /\ found = [status |-> "none", path |-> <<>>]
    /\ editor = <<>>
    /\ scan = ScanIdle

Init ==
    /\ InitSession
    /\ InitPipelineIdle
    /\ InitResolverIdle

(***************************************************************************)
(* Helpers.                                                                *)
(***************************************************************************)
Min(a, b) == IF a <= b THEN a ELSE b

\* the recorders that exist
Born == {r \in RecIds : recState[r] # "none"}

\* the id the next `new MediaRecorder(stream)` gets
NextRec == Cardinality(Born) + 1

\* MediaRecorder.stop(): no effect on an inactive recorder; otherwise the
\* recorder becomes inactive and a task is queued that fires dataavailable
\* with the data gathered so far and then stop.
RecorderStop(rs, r) == IF rs[r] \in {"recording", "paused"} THEN [rs EXCEPT ![r] = "inactive"] ELSE rs

StopQueue(sq, rs, r) == IF rs[r] \in {"recording", "paused"} THEN [sq EXCEPT ![r] = TRUE] ELSE sq

(***************************************************************************)
(* open(): Modal.open() runs onOpen() synchronously, which calls           *)
(* startRecording() and sets isRecording; then the promise is created and  *)
(* its resolve / reject are stored.                                        *)
(***************************************************************************)
Open ==
    /\ resolver = -1
    /\ modalOpen' = TRUE
    /\ pendingAcq' = pendingAcq + 1
    /\ nAcq' = nAcq + 1
    /\ isRecording' = TRUE
    /\ timerText' = 0
    /\ resolver' = 0
    /\ openP' = "pending"
    /\ UNCHANGED <<mediaRecorder, chunks, isResetting, intervalId, startTime,
                   elapsedTime, nextTick, recState, stopListeners, stopQueued,
                   calls, obsVars, now, envVars>>

(***************************************************************************)
(* startRecording(), the .then branch: getUserMedia resolved.              *)
(***************************************************************************)
AcquireOk ==
    /\ pendingAcq > 0
    /\ LET r == NextRec IN
        /\ mediaRecorder' = r
        /\ recState' = [recState EXCEPT ![r] = "recording"]
        /\ stopListeners' = [stopListeners EXCEPT ![r] = 1]
    /\ pendingAcq' = pendingAcq - 1
    /\ startTime' = now
    /\ intervalId' = TRUE
    /\ nextTick' = now + TickPeriod
    /\ everAcquired' = TRUE
    /\ acqSinceReset' = TRUE
    /\ UNCHANGED <<modalOpen, chunks, resolver, isRecording, isResetting,
                   elapsedTime, timerText, stopQueued, nAcq, promVars,
                   recordedMs, acqFailed, released, resetIdle, now,
                   envVars>>

\* this.reject(error): settles the promise whose reject is stored, if pending
Reject(cs) == IF resolver > 0 /\ cs[resolver].state = "pending" THEN [cs EXCEPT ![resolver].state = "rejected"] ELSE cs

(***************************************************************************)
(* startRecording(), the .catch branch: getUserMedia rejected.             *)
(***************************************************************************)
AcquireFail ==
    /\ pendingAcq > 0
    /\ pendingAcq' = pendingAcq - 1
    /\ openP' = IF resolver = 0 /\ openP = "pending" THEN "rejected" ELSE openP
    /\ calls' = Reject(calls)
    /\ acqFailed' = TRUE
    /\ UNCHANGED <<modalVars, timerVars, recState, stopListeners, stopQueued,
                   nAcq, recordedMs, everAcquired, released, acqSinceReset,
                   resetIdle, now,
                   envVars>>

(***************************************************************************)
(* pauseRecording()                                                        *)
(***************************************************************************)
pauseRecording ==
    /\ IF mediaRecorder # 0 /\ recState[mediaRecorder] = "recording"
       THEN /\ recState' = [recState EXCEPT ![mediaRecorder] = "paused"]
            /\ intervalId' = FALSE
            /\ nextTick' = 0
            /\ elapsedTime' = elapsedTime + (now - startTime)
       ELSE UNCHANGED <<recState, intervalId, nextTick, elapsedTime>>
    /\ UNCHANGED <<startTime, pendingAcq, nAcq>>

\* resumeOrStartRecording() as it would be if it started the count of the
\* elapsed time afresh
resumeOrStartRecordingClearsElapsed ==
    /\ IF mediaRecorder # 0 /\ recState[mediaRecorder] = "paused"
       THEN /\ recState' = [recState EXCEPT ![mediaRecorder] = "recording"]
            /\ UNCHANGED <<pendingAcq, nAcq>>
       ELSE /\ nAcq < MaxRec
            /\ pendingAcq' = pendingAcq + 1
            /\ nAcq' = nAcq + 1
            /\ UNCHANGED recState
    /\ startTime' = now
    /\ intervalId' = TRUE
    /\ nextTick' = now + TickPeriod
    /\ elapsedTime' = 0

(***************************************************************************)
(* resumeOrStartRecording(): resume a paused recorder in place, otherwise  *)
(* startRecording() (a new getUserMedia call); then startTime = now and    *)
(* startTimer().                                                           *)
(***************************************************************************)
resumeOrStartRecording ==
    /\ IF mediaRecorder # 0 /\ recState[mediaRecorder] = "paused"
       THEN /\ recState' = [recState EXCEPT ![mediaRecorder] = "recording"]
            /\ UNCHANGED <<pendingAcq, nAcq>>
       ELSE /\ nAcq < MaxRec
            /\ pendingAcq' = pendingAcq + 1
            /\ nAcq' = nAcq + 1
            /\ UNCHANGED recState
    /\ startTime' = now
    /\ intervalId' = TRUE
    /\ nextTick' = now + TickPeriod
    /\ UNCHANGED elapsedTime

(***************************************************************************)
(* The play/pause button.                                                  *)
(***************************************************************************)
PlayPauseClick ==
    /\ modalOpen
    /\ IF isRecording THEN pauseRecording ELSE resumeOrStartRecording
    /\ isRecording' = ~isRecording
    /\ resetIdle' = FALSE
    /\ UNCHANGED <<modalOpen, mediaRecorder, chunks, resolver, isResetting,
                   timerText, stopListeners, stopQueued, promVars, recordedMs,
                   everAcquired, acqFailed, released, acqSinceReset, now,
                   envVars>>

\* hardReset() as it would be if it stopped the recorder without dropping
\* the reference to it (no `this.mediaRecorder = null`)
hardResetKeepsRecorder ==
    /\ IF mediaRecorder # 0
       THEN /\ recState' = RecorderStop(recState, mediaRecorder)
            /\ stopQueued' = StopQueue(stopQueued, recState, mediaRecorder)
            /\ released' = released \cup {mediaRecorder}
            /\ mediaRecorder' = mediaRecorder
       ELSE UNCHANGED <<recState, stopQueued, released, mediaRecorder>>
    /\ isResetting' = TRUE
    /\ chunks' = <<>>
    /\ elapsedTime' = 0
    /\ intervalId' = FALSE
    /\ nextTick' = 0
    /\ timerText' = 0

(***************************************************************************)
(* hardReset()                                                             *)
(***************************************************************************)
hardReset ==
    /\ IF mediaRecorder # 0
       THEN /\ recState' = RecorderStop(recState, mediaRecorder)
            /\ stopQueued' = StopQueue(stopQueued, recState, mediaRecorder)
            /\ released' = released \cup {mediaRecorder}
            /\ mediaRecorder' = 0
       ELSE UNCHANGED <<recState, stopQueued, released, mediaRecorder>>
    /\ isResetting' = TRUE
    /\ chunks' = <<>>
    /\ elapsedTime' = 0
    /\ intervalId' = FALSE
    /\ nextTick' = 0
    /\ timerText' = 0

(***************************************************************************)
(* The Restart button.                                                     *)
(***************************************************************************)
ResetClick ==
    /\ modalOpen
    /\ hardReset
    /\ isRecording' = FALSE
    /\ recordedMs' = 0
    /\ acqSinceReset' = FALSE
    /\ resetIdle' = TRUE
    /\ UNCHANGED <<modalOpen, resolver, startTime, stopListeners, pendingAcq,
                   nAcq, promVars, everAcquired, acqFailed, now, envVars>>

(***************************************************************************)
(* stopRecording(): a new promise whose resolve / reject replace the       *)
(* stored ones; with a recorder, one more onStop listener and stop();      *)
(* without, resolve(null).  The record keeps what the session was like at  *)
(* the call: rec the live recorder it stopped (0 if none), everAcq,        *)
(* acqSince, relAtCall.                                                    *)
(***************************************************************************)
stopRecording ==
    /\ resolver' = Len(calls) + 1
    /\ IF mediaRecorder # 0
       THEN /\ stopListeners' = [stopListeners EXCEPT ![mediaRecorder] = @ + 1]
            /\ recState' = RecorderStop(recState, mediaRecorder)
            /\ stopQueued' = StopQueue(stopQueued, recState, mediaRecorder)
            /\ intervalId' = FALSE
            /\ nextTick' = 0
            /\ calls' = Append(calls, [state |-> "pending",
                                       blob |-> <<>>,
                                       rec |-> IF recState[mediaRecorder] = "inactive"
                                               THEN 0 ELSE mediaRecorder,
                                       everAcq |-> everAcquired,
                                       acqSince |-> acqSinceReset,
                                       relAtCall |-> released])
       ELSE /\ calls' = Append(calls, [state |-> "null",
                                       blob |-> <<>>, rec |-> 0,
                                       everAcq |-> everAcquired,
                                       acqSince |-> acqSinceReset,
                                       relAtCall |-> released])
            /\ UNCHANGED <<stopListeners, recState, stopQueued, intervalId, nextTick>>

(***************************************************************************)
(* The stop (square) button and the Transcribe button: both await          *)
(* stopRecording() and differ in the flag they pass to                     *)
(* handleAudioRecording once the promise has resolved.                     *)
(***************************************************************************)
StopButtonFlagTranscribes == TRUE

StopButtonFlag == FALSE

TranscribeButtonFlag == TRUE

StopClick ==
    /\ modalOpen
    /\ Len(calls) < MaxStops
    /\ stopRecording
    /\ UNCHANGED <<modalOpen, mediaRecorder, chunks, isRecording, isResetting,
                   startTime, elapsedTime, timerText, pendingAcq, nAcq, openP,
                   obsVars, now, envVars>>

TranscribeClick ==
    /\ modalOpen
    /\ Len(calls) < MaxStops
    /\ stopRecording
    /\ UNCHANGED <<modalOpen, mediaRecorder, chunks, isRecording, isResetting,
                   startTime, elapsedTime, timerText, pendingAcq, nAcq, openP,
                   obsVars, now, envVars>>

(***************************************************************************)
(* onDataAvailable(event): the buffer after a fragment of recorder r.      *)
(***************************************************************************)
onDataAvailable(ch, resetting, r) == IF resetting THEN ch ELSE Append(ch, r)

(***************************************************************************)
(* onStop(), as a function of the fields it reads and writes               *)
(* st = [isResetting, openP, calls, modalOpen]; ch is this.chunks.         *)
(* resolve(blob) settles the promise only if it is still pending.          *)
(***************************************************************************)
onStop(st, ch) ==
    IF st.isResetting
    THEN [st EXCEPT !.isResetting = FALSE]
    ELSE IF resolver = -1
    THEN st
    ELSE [st EXCEPT
            !.openP = IF resolver = 0 /\ @ = "pending" THEN "blob" ELSE @,
            !.calls = IF resolver > 0 /\ @[resolver].state = "pending"
                      THEN [@ EXCEPT ![resolver].state = "blob", ![resolver].blob = ch]
                      ELSE @,
            !.modalOpen = FALSE]

RECURSIVE onStopTimes(_, _, _)
\* the stop event runs every bound onStop listener of the recorder in turn
onStopTimes(st, ch, n) == IF n = 0 THEN st ELSE onStopTimes(onStop(st, ch), ch, n - 1)

(***************************************************************************)
(* A recorder in state recording delivers a timeslice fragment             *)
(* (mediaRecorder.start(1000)).                                            *)
(***************************************************************************)
TimesliceData(r) ==
    /\ recState[r] = "recording"
    /\ Len(chunks) < MaxChunks
    /\ chunks' = onDataAvailable(chunks, isResetting, r)
    /\ UNCHANGED <<modalOpen, mediaRecorder, resolver, isRecording, isResetting,
                   timerVars, platVars, promVars, obsVars, now, envVars>>

(***************************************************************************)
(* The task queued by stop() on recorder r runs: dataavailable with the    *)
(* remaining data, then stop.                                              *)
(***************************************************************************)
DeliverStop(r) ==
    /\ stopQueued[r]
    /\ stopQueued' = [stopQueued EXCEPT ![r] = FALSE]
    /\ LET ch == onDataAvailable(chunks, isResetting, r)
           st == onStopTimes([isResetting |-> isResetting, openP |-> openP,
                              calls |-> calls, modalOpen |-> modalOpen],
                             ch, stopListeners[r])
       IN /\ chunks' = ch
          /\ isResetting' = st.isResetting
          /\ openP' = st.openP
          /\ calls' = st.calls
          /\ modalOpen' = st.modalOpen
    /\ UNCHANGED <<mediaRecorder, resolver, isRecording, timerVars, recState,
                   stopListeners, pendingAcq, nAcq, obsVars, now, envVars>>

(***************************************************************************)
(* The user dismisses the modal (Escape, click outside): Modal.close().    *)
(* The class defines no onClose().                                         *)
(***************************************************************************)
Dismiss ==
    /\ modalOpen
    /\ modalOpen' = FALSE
    /\ UNCHANGED <<mediaRecorder, chunks, resolver, isRecording, isResetting,
                   timerVars, platVars, promVars, obsVars, now, envVars>>

(***************************************************************************)
(* The interval callback of startTimer().                                  *)
(***************************************************************************)
TimerTick ==
    /\ intervalId
    /\ now >= nextTick
    /\ timerText' = (elapsedTime \div TickPeriod) + ((now - startTime) \div TickPeriod)
    /\ nextTick' = nextTick + TickPeriod
    /\ UNCHANGED <<modalVars, intervalId, startTime, elapsedTime, platVars,
                   promVars, obsVars, now, envVars>>

\* the session's recorder is capturing
Capturing == mediaRecorder # 0 /\ recState[mediaRecorder] = "recording"

(***************************************************************************)
(* Time passes; a due interval callback runs before time passes on.        *)
(***************************************************************************)
Advance ==
    /\ now < MaxTime
    /\ intervalId => now < nextTick
    /\ LET d == IF intervalId THEN Min(Min(TimeStep, MaxTime - now), nextTick - now)
                ELSE Min(TimeStep, MaxTime - now)
       IN /\ now' = now + d
          /\ recordedMs' = IF Capturing THEN recordedMs + d ELSE recordedMs
    /\ UNCHANGED <<modalVars, timerVars, platVars, promVars, everAcquired,
                   acqFailed, released, acqSinceReset, resetIdle, envVars>>

Next ==
    \/ Open
    \/ AcquireOk
    \/ AcquireFail
    \/ PlayPauseClick
    \/ ResetClick
    \/ StopClick
    \/ TranscribeClick
    \/ \E r \in RecIds : TimesliceData(r)
    \/ \E r \in RecIds : DeliverStop(r)
    \/ Dismiss

(***************************************************************************)
(* Spec: the session with every interleaving of clicks, acquisitions and   *)
(* recorder events, all within one reading of the clock.                   *)
(***************************************************************************)
Spec == Init /\ [][Next]_vars

\* the platform delivers what it owes: a getUserMedia promise settles and a
\* queued stop event is dispatched; nothing obliges the user to click
PlatformSteps ==
    \/ AcquireOk
    \/ AcquireFail
    \/ \E r \in RecIds : DeliverStop(r)

FairSpec == Spec /\ WF_vars(PlatformSteps)

\* getUserMedia calls in a session whose clock runs
MaxTimedRec == 2

\* the interval callback is due at this reading of the clock
TickDue == intervalId /\ now >= nextTick

\* A due interval callback runs before anything else handled at the same
\* instant (its task was queued first).
NextTimer ==
    \/ ~TickDue /\ Open
    \/ ~TickDue /\ AcquireOk
    \/ ~TickDue /\ AcquireFail
    \/ ~TickDue /\ PlayPauseClick /\ nAcq' <= MaxTimedRec
    \/ ~TickDue /\ ResetClick
    \/ ~TickDue /\ StopClick
    \/ ~TickDue /\ TranscribeClick
    \/ ~TickDue /\ \E r \in RecIds : TimesliceData(r)
    \/ ~TickDue /\ \E r \in RecIds : DeliverStop(r)
    \/ ~TickDue /\ Dismiss
    \/ TimerTick
    \/ Advance

(***************************************************************************)
(* SpecTimer: the same session with the clock running and the interval     *)
(* callback, for sessions of at most MaxTimedRec acquisitions.             *)
(***************************************************************************)
SpecTimer == Init /\ [][NextTimer]_vars

\* The timed session before any stop: clicks on play/pause and Restart,
\* acquisitions, recorder events, the interval callback and the clock.
NextPause ==
    \/ ~TickDue /\ Open
    \/ ~TickDue /\ AcquireOk
    \/ ~TickDue /\ AcquireFail
    \/ ~TickDue /\ PlayPauseClick /\ nAcq' <= MaxTimedRec
    \/ ~TickDue /\ ResetClick
    \/ ~TickDue /\ \E r \in RecIds : TimesliceData(r)
    \/ ~TickDue /\ \E r \in RecIds : DeliverStop(r)
    \/ TimerTick
    \/ Advance

(***************************************************************************)
(* SpecPause: SpecTimer for a session whose Stop and Transcribe buttons    *)
(* are not clicked and that is not dismissed.                              *)
(***************************************************************************)
SpecPause == Init /\ [][NextPause]_vars

(***************************************************************************)
(* Properties of the recording session.                                    *)
(***************************************************************************)
\* the stopRecording() calls whose promise is settled with a Blob
BlobCalls == {k \in DOMAIN calls : calls[k].state = "blob"}

\* C1: the artifact that resolves the future of a stopRecording() holds no
\* fragment of a recorder that a hardReset had released before that
\* stopRecording() was called: fragments of a discarded session never
\* reach the artifact of a later stop.
C1_NoStaleFragmentInArtifact ==
    \A k \in BlobCalls :
        \A i \in DOMAIN calls[k].blob : calls[k].blob[i] \notin calls[k].relAtCall

\* the stopRecording() calls that stopped a live recorder whose stop event
\* has been dispatched since
CompletedCalls == {k \in DOMAIN calls : calls[k].rec # 0 /\ ~stopQueued[calls[k].rec]}

\* C2: exactly one artifact per stop: the future of every stopRecording()
\* that stopped the recorder is resolved with a Blob once the recorder's
\* stop event has been dispatched, and handleAudioRecording receives a Blob
\* at most once in a session.
C2_ExactlyOneArtifactPerStop ==
    /\ Cardinality(BlobCalls) <= 1
    /\ \A k \in CompletedCalls : calls[k].state = "blob"

\* C3 (as claimed): stopRecording() yields null exactly when no capture
\* device was ever acquired in the session.
C3_NullIffNeverAcquired ==
    \A k \in DOMAIN calls : (calls[k].state = "null") <=> ~calls[k].everAcq

\* C3 (amended): stopRecording() yields null exactly when no capture device
\* was acquired since the session was opened or last reset; the future is
\* then neither rejected nor resolved with an artifact.
C3_NullIffNoDeviceSinceReset ==
    \A k \in DOMAIN calls : (calls[k].state = "null") <=> ~calls[k].acqSince

\* C3 witness: a stop after a reset yields null although a device had been
\* acquired earlier in the session.
C3_Witness_NullAfterReset ==
    \E k \in DOMAIN calls : calls[k].state = "null" /\ calls[k].everAcq

\* C10: once an acquisition of the capture device has failed, the failure
\* has been shown to the user and the awaited future is rejected: no
\* stopRecording() future is resolved with null as if nothing had happened.
C10_AcquisitionFailureSurfaced ==
    acqFailed =>
        /\ notices # {}
        /\ \A k \in DOMAIN calls : calls[k].state # "null"

\* C4: whenever no interval callback is due, the timer shows the whole
\* seconds of the time spent recording since the session began (or was
\* reset), whatever the pauses.
C4_TimerShowsRecordedTime ==
    ~TickDue => timerText = recordedMs \div TickPeriod

\* some capture device of the session is running (recording or paused)
DeviceRunning == \E r \in RecIds : recState[r] \in {"recording", "paused"}

\* C11: from the Restart click until the user clicks play again the session
\* is idle: no recorder is held, no capture device runs, the fragment buffer
\* is empty, the elapsed time is 0, the timer shows 00:00 and no interval
\* is active.
C11_ResetLeavesIdleUntilRestart ==
    resetIdle =>
        /\ mediaRecorder = 0
        /\ ~DeviceRunning
        /\ chunks = <<>>
        /\ elapsedTime = 0
        /\ timerText = 0
        /\ ~intervalId

\* C17: the interval of the timer is active only while the session records:
\* the held recorder is capturing, or the capture device asked for is still
\* being acquired.
C17_TickerOnlyWhileRecording ==
    intervalId => (Capturing \/ pendingAcq > 0)

\* C18: the fragment buffer grows only by a fragment of the recorder the
\* session holds, delivered while that recorder is recording and no reset
\* is being carried out.
C18_BufferAcceptsOnlyWhileRecording ==
    [][Len(chunks') > Len(chunks) =>
          /\ Capturing
          /\ ~isResetting
          /\ chunks'[Len(chunks')] = mediaRecorder]_vars

\* C19: once the modal that was opened is closed, no capture device runs
\* and no interval is active.
C19_ClosedSessionIsDestroyed ==
    (resolver # -1 /\ ~modalOpen) => (~DeviceRunning /\ ~intervalId)

\* C20: the discard flag is cleared only by the stop event of a recorder
\* that a reset released, and the step that clears it settles no future
\* and does not close the modal.
C20_FlagClearedOnlyByReleasedStop ==
    [][(isResetting /\ ~isResetting') =>
          /\ \E r \in released : stopQueued[r] /\ ~stopQueued'[r]
          /\ openP' = openP
          /\ calls' = calls
          /\ modalOpen' = modalOpen]_vars

\* the recorders that are live: recording or paused
LiveRecorders == {r \in RecIds : recState[r] \in {"recording", "paused"}}

\* C21: at most one recorder of the session is live, and every recorder
\* the session created and no longer references has been stopped.
C21_DeviceOwnedExclusively ==
    /\ Cardinality(LiveRecorders) <= 1
    /\ \A r \in LiveRecorders : r = mediaRecorder

\* a click on the play/pause button showing play: resumeOrStartRecording()
ResumeStep == resolver # -1 /\ ~isRecording /\ isRecording'

Header ==
    IF resetIdle THEN "Ready to Record"
    ELSE IF isRecording THEN "Recording..." ELSE "Paused"

\* a click on the play/pause button showing pause: pauseRecording()
PauseStep == modalOpen /\ isRecording /\ ~isRecording' /\ ~resetIdle'

\* C23: a pause acts only on a recorder that is recording: it pauses it,
\* cancels the interval and adds now - startTime to the elapsed time; in
\* any other state it leaves the recorder, the buffer, the elapsed time,
\* the interval and what the session shows as they are.
C23_PauseOnlyFromRecording ==
    [][PauseStep =>
          IF Capturing
          THEN /\ recState' = [recState EXCEPT ![mediaRecorder] = "paused"]
               /\ ~intervalId'
               /\ elapsedTime' = elapsedTime + (now - startTime)
               /\ chunks' = chunks
          ELSE /\ UNCHANGED <<mediaRecorder, recState, chunks, elapsedTime, intervalId>>
               /\ Header' = Header]_vars

\* the promise whose resolve is stored is still pending
FuturePending ==
    IF resolver = 0 THEN openP = "pending"
    ELSE resolver > 0 /\ calls[resolver].state = "pending"

\* the Blobs the onStop listeners of recorder r build when its stop event
\* is dispatched now
Builds(r) == stopListeners[r] - (IF isResetting THEN 1 ELSE 0)

\* C24: whenever the stop event of a recorder makes onStop build an
\* artifact, a resolver is stored and its future is still pending, and the
\* event builds one artifact.
C24_ArtifactHasPendingFuture ==
    [][\A r \in RecIds :
          (stopQueued[r] /\ ~stopQueued'[r] /\ Builds(r) > 0) =>
              (resolver # -1 /\ FuturePending /\ Builds(r) = 1)]_vars

\* C30: whenever the discard flag is set, the stop event of a recorder
\* that a reset released is still to be dispatched.
C30_FlagHasPendingStaleStop ==
    isResetting => \E r \in released : stopQueued[r]

(***************************************************************************)
(* findFilePath(text, regex) (src/main.ts).  The text is a sequence of     *)
(* tokens: a wiki-style link `[[ref]]`, a markdown-style link `[..](ref)`  *)
(* (ref ending in .mp3 / .wav), or anything else.  The first regular       *)
(* expression matches the refs of the wiki tokens, the second those of the *)
(* markdown tokens, each in text order.                                    *)
(***************************************************************************)
Token(kind, ref) == [kind |-> kind, ref |-> ref]

IsWiki(tok) == tok.kind = "wiki"

IsMd(tok) == tok.kind = "md"

\* reg.exec(text) until null: the matches of one regular expression
Matches(text, kind) == IF kind = "wiki" THEN SelectSeq(text, IsWiki) ELSE SelectSeq(text, IsMd)

\* the inner while loop: filename is overwritten by every match
ScanOne(filename, ms) == IF ms = <<>> THEN filename ELSE normalizePath(decodeURI(ms[Len(ms)].ref))

\* the for loop over regex = [wiki, markdown]; <<>> is the empty string
ScanFilename(text) == ScanOne(ScanOne(<<>>, Matches(text, "wiki")), Matches(text, "md"))

\* file.name of a path: its last segment
BaseName(path) == path[Len(path)]

\* the outcomes of findFilePath: the path returned, or the error thrown;
\* vault.getFiles().find(...) returns the first file of that name in the
\* vault's own order, any of them here
findFilePath(text) ==
    LET filename == ScanFilename(text)
        byName == {f \in vault : BaseName(f) = BaseName(filename)}
    IN  IF filename = <<>> THEN {[status |-> "No file found in the text.", path |-> <<>>]}
        ELSE IF filename \in vault \cup folders THEN {[status |-> "ok", path |-> filename]}
        ELSE IF byName # {} THEN {[status |-> "ok", path |-> f] : f \in byName}
        ELSE {[status |-> "File not found", path |-> <<>>]}

(***************************************************************************)
(* CaptainsLogPlugin (src/main.ts).  A job is one invocation of            *)
(* handleAudioRecording (entry "stop" or "transcribe", after the modal's   *)
(* button) or of commandGenerateTranscript (entry "command"); pc is the    *)
(* await it is suspended at.  A vault call takes effect where it is made;  *)
(* the code after its await runs in a later step.  In SpecPipeline the     *)
(* user starts an invocation when the one before it has run to its end,    *)
(* and `jobs` holds that one invocation; what it left is in the vault and  *)
(* the settings.  msgs are the notices an invocation has raised.           *)
(***************************************************************************)
\* bound: invocations in one behaviour
MaxJobs == 2

\* the hours the clock may show
Hours == {9}

Placements == {"inline", "newNote"}

\* the period of getDate(): Morning 4..11, Afternoon 12..19, else Night
Period(h) == IF h >= 4 /\ h < 12 THEN "Morning" ELSE IF h >= 12 /\ h < 20 THEN "Afternoon" ELSE "Night"

\* vault.getAbstractFileByPath(path): an exact lookup
getAbstractFileByPath(path) == path \in vault \cup folders

\* file.parent.path of the active note: "/" for a note of the vault root
ParentPath(a) == IF a = "root" THEN RootPath ELSE <<Dir(a)>>

\* the folder a path lies in, as `active` names it
FolderOf(path) == IF Len(path) = 1 THEN "root" ELSE path[1].p

\* the while loops of handleAudioRecording and transcribeRecording: count
\* starts at 1 and grows while the path checked exists
RECURSIVE FirstFree(_, _, _, _)
FirstFree(prefix, kind, period, count) ==
    IF getAbstractFileByPath(prefix \o <<Seg(kind, period, count)>>)
    THEN FirstFree(prefix, kind, period, count + 1)
    ELSE count

\* no invocation is suspended at an await
Idle == \A j \in DOMAIN jobs : jobs[j].pc = "done"

NewJob(entry, transcribe, keepAudio, includeLink, file, pc) ==
    [entry |-> entry, pc |-> pc, transcribe |-> transcribe, keepAudio |-> keepAudio,
     includeLink |-> includeLink, file |-> file, savedFile |-> FALSE, view |-> "none",
     linked |-> FALSE, trStarted |-> FALSE, uploaded |-> FALSE, generated |-> FALSE,
     genRequests |-> 0, placed |-> "none", embed |-> FALSE,
     target |-> "none",
     failed |-> "", notePath |-> <<>>, collides |-> FALSE, deleted |-> FALSE, msgs |-> {}]

Say(job, m) == [job EXCEPT !.msgs = @ \cup m]

\* the state of the plugin after onload(): the settings as loaded
InitPipeline ==
    /\ InitSession
    /\ InitResolverIdle
    /\ settings \in [keepAudio : BOOLEAN, includeAudioFileLink : BOOLEAN,
                     insertTranscriptLocation : Placements,
                     defaultNoteFolder : {<<>>, LogsFolder},
                     recordingFilePath : {RecordingFolder}]
    /\ saved = settings
    /\ userPref = settings.insertTranscriptLocation
    /\ vault = {AudioA}
    /\ folders = {NotesFolder}
    /\ active \in {"none", "root", "notes"}
    /\ hour \in Hours
    /\ jobs = <<>>
    /\ nJobs = 0
    /\ kept = {}
    /\ writing = FALSE
    /\ transcript = 0
    /\ notices = {}

\* the flag the modal's button passes to handleAudioRecording
ButtonFlag(entry) == IF entry = "stop" THEN StopButtonFlag ELSE TranscribeButtonFlag

\* handleAudioRecording up to `await saveFile(...)`; audioFile, keepAudio and
\* includeLink come from the modal
handleAudioRecording(entry, hasAudio, keepAudio, includeLink) ==
    /\ nJobs < MaxJobs
    /\ Idle
    /\ nJobs' = nJobs + 1
    /\ LET count == FirstFree(normalizePath(settings.recordingFilePath), "rec", Period(hour), 1)
           file == normalizePath(settings.recordingFilePath \o <<RecSeg(Period(hour), count)>>)
       IN  IF hasAudio
           THEN jobs' = <<NewJob(entry, ButtonFlag(entry), keepAudio, includeLink, file, "saving")>>
           ELSE jobs' = <<NewJob(entry, ButtonFlag(entry), keepAudio, includeLink, <<>>, "done")>>
    /\ UNCHANGED <<sessVars, resVars, settings, saved, userPref, kept, vault, folders, active,
                   hour, writing, transcript, notices>>

StopButtonFlow == \E a, k, l \in BOOLEAN : handleAudioRecording("stop", a, k, l)

TranscribeButtonFlow == \E a, k, l \in BOOLEAN : handleAudioRecording("transcribe", a, k, l)

\* saveFile(app, blob, fileName, folder) of ./Utils persists the audio as a
\* file: the folder is made if missing and the file is created; the call fails
\* when the file exists
saveFileOk(path) == path \notin vault

saveFileVault(path) == vault \cup {path}

saveFileFolders(path) == folders \cup {SubSeq(path, 1, k) : k \in 1..(Len(path) - 1)}

\* `await saveFile(...)` settles; then the two settings are overwritten and
\* saveSettings() is called
SaveFileSettles(j) ==
    /\ jobs[j].pc = "saving"
    /\ IF ~saveFileOk(jobs[j].file)
       THEN /\ jobs' = [jobs EXCEPT ![j] = Say([@ EXCEPT !.pc = "done", !.failed = "save"],
                                                {"Failed to handle audio recording"})]
            /\ UNCHANGED <<vault, folders, settings, saved, kept>>
       ELSE /\ jobs' = [jobs EXCEPT ![j].pc = "har_saved", ![j].savedFile = TRUE]
            /\ vault' = saveFileVault(jobs[j].file)
            /\ folders' = saveFileFolders(jobs[j].file)
            /\ kept' = IF jobs[j].entry = "stop" THEN kept \cup {jobs[j].file} ELSE kept
            /\ settings' = [settings EXCEPT !.keepAudio = jobs[j].keepAudio,
                                            !.includeAudioFileLink = jobs[j].includeLink]
            /\ saved' = settings'
    /\ UNCHANGED <<sessVars, resVars, userPref, active, hour, nJobs, writing, transcript, notices>>

\* the head of transcribeRecording, up to `await readBinary`: the view is
\* captured, and "inline" without a view falls back to "newNote"
TrBeginJob(job) ==
    [job EXCEPT !.pc = "tr_read", !.trStarted = TRUE, !.view = active,
                !.target = IF settings.insertTranscriptLocation = "inline" /\ active # "none"
                           THEN "inline" ELSE "new"]

TrBeginSettings ==
    IF settings.insertTranscriptLocation = "inline" /\ active = "none"
    THEN [settings EXCEPT !.insertTranscriptLocation = "newNote"]
    ELSE settings

TrBeginNotices ==
    IF settings.insertTranscriptLocation = "inline" /\ active = "none"
    THEN {"No active file open. Defaulting to generating the transcript in a new note.",
          "Processing audio for transcription..."}
    ELSE {"Processing audio for transcription..."}

\* after `await this.saveSettings()`: the link is inserted when asked for,
\* and with the transcribe flag transcribeRecording(file) is called
AfterSave(j) ==
    /\ jobs[j].pc = "har_saved"
    /\ LET wantLink == /\ jobs[j].includeLink
                       /\ jobs[j].keepAudio
                       /\ settings.insertTranscriptLocation # "newNote"
           linkNotice == IF wantLink /\ active = "none"
                         THEN {"No active editor found. Audio file link not inserted."}
                         ELSE {}
           jl == [jobs[j] EXCEPT !.linked = wantLink /\ active # "none"]
       IN  IF jobs[j].transcribe
           THEN /\ jobs' = [jobs EXCEPT ![j] = Say(TrBeginJob(jl), linkNotice \cup TrBeginNotices)]
                /\ settings' = TrBeginSettings
           ELSE /\ jobs' = [jobs EXCEPT ![j] = Say([jl EXCEPT !.pc = "done"], linkNotice)]
                /\ UNCHANGED settings
    /\ UNCHANGED <<sessVars, resVars, saved, userPref, kept, vault, folders, active, hour, nJobs,
                   writing, transcript, notices>>

\* the return of transcribeRecording as it would be if handleAudioRecording
\* cleared this.writing as the command does
\* transcribeRecording returns to its caller: handleAudioRecording deletes
\* the file unless keepAudio, the command clears `writing`
RetJob(job) ==
    IF job.entry = "command" THEN [job EXCEPT !.pc = "done"]
    ELSE IF ~job.keepAudio THEN [job EXCEPT !.pc = "har_deleted", !.deleted = TRUE]
    ELSE [job EXCEPT !.pc = "done"]

RetVault(job, v) == IF job.entry # "command" /\ ~job.keepAudio THEN v \ {job.file} ELSE v

\* the guard after transcribeRecording returned: only the command clears it
RetWritingClearsAlways(job) == FALSE
RetWriting(job) == IF job.entry = "command" THEN FALSE ELSE writing

Return(j, job, v, msgs) ==
    /\ jobs' = [jobs EXCEPT ![j] = Say(RetJob(job), msgs)]
    /\ vault' = RetVault(job, v)
    /\ writing' = RetWriting(job)

\* `await readBinary(audioFile.path)` settles, outside the try block: a
\* failure leaves transcribeRecording, to the catch of handleAudioRecording
\* or, for the command, to nobody
ReadSettles(j) ==
    /\ jobs[j].pc = "tr_read"
    /\ IF jobs[j].file \in vault
       THEN jobs' = [jobs EXCEPT ![j].pc = "tr_init"]
       ELSE jobs' = [jobs EXCEPT ![j] = Say([@ EXCEPT !.pc = "done", !.failed = "read"],
                                            IF @.entry = "command" THEN {}
                                            ELSE {"Failed to handle audio recording"})]
    /\ UNCHANGED <<sessVars, resVars, settings, saved, userPref, kept, vault, folders, active,
                   hour, nJobs, writing, transcript, notices>>

\* the upload is initiated: the response carries the upload URL or not
UploadInitSettles(j, ok) ==
    /\ jobs[j].pc = "tr_init"
    /\ IF ok
       THEN /\ jobs' = [jobs EXCEPT ![j].pc = "tr_upload"]
            /\ UNCHANGED <<vault, writing>>
       ELSE Return(j, [jobs[j] EXCEPT !.failed = "upload"], vault, {"Failed to retrieve upload URL"})
    /\ UNCHANGED <<sessVars, resVars, settings, saved, userPref, kept, folders, active, hour, nJobs,
                   transcript, notices>>

\* the upload step as it would be if transcribeRecording did not test
\* uploadData.file.uri and went on without a file URI
UploadSettlesIgnoresMissingUri(j, ok) ==
    /\ jobs[j].pc = "tr_upload"
    /\ jobs' = [jobs EXCEPT ![j] = Say([@ EXCEPT !.pc = "tr_template", !.uploaded = ok],
                                        {"Audio uploaded. Generating transcript..."})]
    /\ UNCHANGED <<vault, writing>>
    /\ UNCHANGED <<sessVars, resVars, settings, saved, userPref, kept, folders, active, hour, nJobs,
                   transcript, notices>>

\* the bytes are uploaded: the response carries the file URI or not
UploadSettles(j, ok) ==
    /\ jobs[j].pc = "tr_upload"
    /\ IF ok
       THEN /\ jobs' = [jobs EXCEPT ![j] = Say([@ EXCEPT !.pc = "tr_template", !.uploaded = TRUE],
                                                {"Audio uploaded. Generating transcript..."})]
            /\ UNCHANGED <<vault, writing>>
       ELSE Return(j, [jobs[j] EXCEPT !.failed = "upload"], vault, {"File URI not returned from upload"})
    /\ UNCHANGED <<sessVars, resVars, settings, saved, userPref, kept, folders, active, hour, nJobs,
                   transcript, notices>>

\* `await this.loadTemplateContent()` settles and generateContent is called
TemplateSettles(j) ==
    /\ jobs[j].pc = "tr_template"
    /\ jobs' = [jobs EXCEPT ![j].pc = "tr_generate", ![j].generated = TRUE,
                             ![j].genRequests = @ + 1]
    /\ UNCHANGED <<sessVars, resVars, settings, saved, userPref, kept, vault, folders, active,
                   hour, nJobs, writing, transcript, notices>>

\* the title loop and vault.create(notePath, content); checked is the folder
\* part of the path the loop looks up; embed: the content, assembled before
\* any await of the branch, begins with `![[audioFile.path]]`
CreateNote(j, checked) ==
    LET count == FirstFree(checked, "note", Period(hour), 1)
        notePath == normalizePath(checked \o <<NoteSeg(Period(hour), count)>>)
        parentOk == Len(notePath) = 1 \/ SubSeq(notePath, 1, Len(notePath) - 1) \in folders
        ok == ~getAbstractFileByPath(notePath) /\ parentOk
    IN  /\ jobs' = [jobs EXCEPT ![j] =
                      Say([@ EXCEPT !.pc = "tr_created", !.notePath = notePath,
                                    !.embed = IF jobs[j].pc = "tr_mkdir" THEN @
                                              ELSE settings.includeAudioFileLink,
                                    !.collides = getAbstractFileByPath(notePath),
                                    !.placed = IF ok THEN "new" ELSE "none",
                                    !.failed = IF ok THEN "" ELSE "placement"],
                          {IF ok THEN "Transcript generated in a new note"
                                 ELSE "Failed to create new note for transcript."})]
        /\ vault' = IF ok THEN vault \cup {notePath} ELSE vault

\* the response without text as it would be handled if the request were
\* sent again instead of throwing
GenerationFailedRetries(j) ==
    /\ jobs' = [jobs EXCEPT ![j].genRequests = @ + 1]
    /\ UNCHANGED <<vault, writing, folders, transcript>>

\* the response carries no candidates[0].content.parts[0].text: the else
\* branch throws, the catch shows the message
GenerationFailed(j) ==
    /\ Return(j, [jobs[j] EXCEPT !.failed = "generate"], vault, {"No text returned from AI model."})
    /\ UNCHANGED <<folders, transcript>>

\* generateContent settles: with text, this.transcript is set and the text is
\* placed as settings.insertTranscriptLocation says now
GenerateSettles(j, ok) ==
    /\ jobs[j].pc = "tr_generate"
    /\ IF ~ok
       THEN GenerationFailed(j)
       ELSE /\ transcript' = j
            /\ IF settings.insertTranscriptLocation = "inline"
               THEN /\ IF jobs[j].view = "none"
                       THEN Return(j, [jobs[j] EXCEPT !.failed = "placement"], vault,
                                   {"Cannot read properties of null (reading 'editor')"})
                       ELSE Return(j, [jobs[j] EXCEPT !.placed = "inline"], vault,
                                   {"Transcript generated and inserted inline."})
                    /\ UNCHANGED folders
               ELSE IF settings.defaultNoteFolder # <<>>
               THEN IF getAbstractFileByPath(settings.defaultNoteFolder)
                    THEN /\ CreateNote(j, normalizePath(settings.defaultNoteFolder))
                         /\ UNCHANGED <<folders, writing>>
                    ELSE /\ \E made \in BOOLEAN :
                              /\ folders' = IF made THEN folders \cup {settings.defaultNoteFolder}
                                                    ELSE folders
                              /\ jobs' = [jobs EXCEPT ![j] =
                                            Say([@ EXCEPT !.pc = "tr_mkdir",
                                                          !.embed = settings.includeAudioFileLink],
                                                IF made THEN {}
                                                ELSE {"Failed to create folder. Using vault root instead."})]
                         /\ UNCHANGED <<vault, writing>>
               ELSE IF active # "none"
               THEN /\ CreateNote(j, ParentPath(active))
                    /\ UNCHANGED <<folders, writing>>
               ELSE /\ CreateNote(j, <<>>)
                    /\ UNCHANGED <<folders, writing>>
    /\ UNCHANGED <<sessVars, resVars, settings, saved, userPref, kept, active, hour, nJobs,
                   notices>>

\* `await createFolder(defaultFolder)` settled: the title loop and create
FolderSettles(j) ==
    /\ jobs[j].pc = "tr_mkdir"
    /\ CreateNote(j, normalizePath(settings.defaultNoteFolder))
    /\ UNCHANGED <<sessVars, resVars, settings, saved, userPref, kept, folders, active, hour, nJobs,
                   writing, transcript, notices>>

\* `await vault.create` settled: the new note is opened in a new leaf, and
\* transcribeRecording returns
CreateSettles(j) ==
    /\ jobs[j].pc = "tr_created"
    /\ Return(j, jobs[j], vault, {})
    /\ active' = IF jobs[j].placed = "new" THEN FolderOf(jobs[j].notePath) ELSE active
    /\ UNCHANGED <<sessVars, resVars, settings, saved, userPref, kept, folders, hour, nJobs,
                   transcript, notices>>

\* folder.children: what the vault holds below a folder
Children(folder) == {f \in vault \cup folders : Len(f) > Len(folder) /\ SubSeq(f, 1, Len(folder)) = folder}

\* `await vault.delete(file)` settled: the folder that
\* settings.recordingFilePath names now is looked up and deleted when it has
\* no children
FolderCleanup(j) ==
    /\ jobs[j].pc = "har_deleted"
    /\ jobs' = [jobs EXCEPT ![j].pc = "done"]
    /\ LET folder == settings.recordingFilePath
       IN  folders' = IF folder \in folders /\ Children(folder) = {}
                      THEN folders \ {folder} ELSE folders
    /\ UNCHANGED <<sessVars, resVars, settings, saved, userPref, kept, vault, active, hour, nJobs,
                   writing, transcript, notices>>

\* the texts the command is run on: a link to a.mp3, a link to a file the
\* vault does not hold, no link
CommandTexts == {<<Token("wiki", AudioA)>>, <<Token("wiki", AudioB)>>, <<Token("text", <<>>)>>}

\* commandGenerateTranscript(editor), text being the editor's text before the
\* cursor: findFilePath settles and adapter.exists is called, or the error
\* is shown
commandGenerateTranscript(text) ==
    /\ active # "none"
    /\ nJobs < MaxJobs
    /\ Idle
    /\ nJobs' = nJobs + 1
    /\ \E r \in findFilePath(text) :
          IF r.status = "ok"
          THEN jobs' = <<NewJob("command", TRUE, settings.keepAudio,
                                settings.includeAudioFileLink, r.path, "cmd_exists")>>
          ELSE jobs' = <<Say(NewJob("command", TRUE, settings.keepAudio,
                                    settings.includeAudioFileLink, <<>>, "done"), {r.status})>>
    /\ UNCHANGED <<sessVars, resVars, settings, saved, userPref, kept, vault, folders, active,
                   hour, writing, transcript, notices>>

\* the command "Transcribe Audio": without a markdown view only a notice
TranscribeAudioCommand ==
    IF active = "none"
    THEN /\ notices' = notices \cup {"No active file open. The transcript will be generated in a new note."}
         /\ "No active file open. The transcript will be generated in a new note." \notin notices
         /\ UNCHANGED <<sessVars, resVars, settings, saved, userPref, kept, vault, folders,
                         active, hour, jobs, nJobs, writing, transcript>>
    ELSE \E text \in CommandTexts : commandGenerateTranscript(text)

\* adapter.exists(path) settles and readBinary(path) is called
ExistsSettles(j) ==
    /\ jobs[j].pc = "cmd_exists"
    /\ jobs' = [jobs EXCEPT ![j].pc = IF jobs[j].file \in vault THEN "cmd_read" ELSE "done",
                            ![j].failed = IF jobs[j].file \in vault THEN "" ELSE "exists"]
    /\ UNCHANGED <<sessVars, resVars, settings, saved, userPref, kept, vault, folders, active,
                   hour, nJobs, writing, transcript, notices>>

\* the readBinary callback as it would be without the test of this.writing
CommandReadSettlesUnguarded(j) ==
    /\ jobs[j].pc = "cmd_read"
    /\ IF jobs[j].file \notin vault
       THEN /\ jobs' = [jobs EXCEPT ![j].pc = "done", ![j].failed = "read"]
            /\ UNCHANGED <<settings, writing>>
       ELSE /\ writing' = TRUE
            /\ jobs' = [jobs EXCEPT ![j] = Say(TrBeginJob(@), {"Generating transcript..."}
                                                                \cup TrBeginNotices)]
            /\ settings' = TrBeginSettings
    /\ UNCHANGED <<sessVars, resVars, saved, userPref, kept, vault, folders, active, hour, nJobs,
                   transcript, notices>>

\* readBinary(path) settles: the `writing` guard, then transcribeRecording
CommandReadSettles(j) ==
    /\ jobs[j].pc = "cmd_read"
    /\ IF jobs[j].file \notin vault
       THEN /\ jobs' = [jobs EXCEPT ![j].pc = "done", ![j].failed = "read"]
            /\ UNCHANGED <<settings, writing>>
       ELSE IF writing
       THEN /\ jobs' = [jobs EXCEPT ![j] = Say([@ EXCEPT !.pc = "done", !.failed = "busy"],
                                                {"Generator is already in progress."})]
            /\ UNCHANGED <<settings, writing>>
       ELSE /\ writing' = TRUE
            /\ jobs' = [jobs EXCEPT ![j] = Say(TrBeginJob(@), {"Generating transcript..."}
                                                                \cup TrBeginNotices)]
            /\ settings' = TrBeginSettings
    /\ UNCHANGED <<sessVars, resVars, saved, userPref, kept, vault, folders, active, hour, nJobs,
                   transcript, notices>>

\* the settings tab: a control's onChange assigns the field and saves
SetPlacement(v) ==
    /\ settings.insertTranscriptLocation # v
    /\ settings' = [settings EXCEPT !.insertTranscriptLocation = v]
    /\ saved' = settings'
    /\ userPref' = v
    /\ UNCHANGED <<sessVars, resVars, kept, vault, folders, active, hour, nJobs, jobs, writing,
                   transcript, notices>>

\* the settings tab, "Recording file path"
SetRecordingFolder(v) ==
    /\ settings.recordingFilePath # v
    /\ settings' = [settings EXCEPT !.recordingFilePath = v]
    /\ saved' = settings'
    /\ UNCHANGED <<sessVars, resVars, userPref, kept, vault, folders, active, hour, nJobs, jobs,
                   writing, transcript, notices>>

\* the user opens, switches to or closes a note
SwitchActive(a) ==
    /\ active # a
    /\ a = "none" \/ a = "root" \/ <<Dir(a)>> \in folders
    /\ active' = a
    /\ UNCHANGED <<sessVars, resVars, settings, saved, userPref, kept, vault, folders, hour, nJobs,
                   jobs, writing, transcript, notices>>

JobIds == 1..MaxJobs

Live(j) == j \in DOMAIN jobs

NextPipeline ==
    \/ StopButtonFlow
    \/ TranscribeButtonFlow
    \/ TranscribeAudioCommand
    \/ \E j \in JobIds : Live(j) /\ SaveFileSettles(j)
    \/ \E j \in JobIds : Live(j) /\ AfterSave(j)
    \/ \E j \in JobIds : Live(j) /\ ReadSettles(j)
    \/ \E j \in JobIds, ok \in BOOLEAN : Live(j) /\ UploadInitSettles(j, ok)
    \/ \E j \in JobIds, ok \in BOOLEAN : Live(j) /\ UploadSettles(j, ok)
    \/ \E j \in JobIds : Live(j) /\ TemplateSettles(j)
    \/ \E j \in JobIds, ok \in BOOLEAN : Live(j) /\ GenerateSettles(j, ok)
    \/ \E j \in JobIds : Live(j) /\ FolderSettles(j)
    \/ \E j \in JobIds : Live(j) /\ CreateSettles(j)
    \/ \E j \in JobIds : Live(j) /\ FolderCleanup(j)
    \/ \E j \in JobIds : Live(j) /\ ExistsSettles(j)
    \/ \E j \in JobIds : Live(j) /\ CommandReadSettles(j)
    \/ \E v \in Placements : SetPlacement(v)
    \/ \E a \in {"none", "root", "notes", "logs"} : SwitchActive(a)

SpecPipeline == InitPipeline /\ [][NextPipeline]_vars

(***************************************************************************)
(* SpecOverlap: the command "Transcribe Audio" and the Transcribe button   *)
(* of a recording modal (keep-audio ticked) used while earlier invocations *)
(* are suspended at their awaits.  `jobs` holds every invocation of the    *)
(* behaviour; the steps of the invocations interleave at the awaits in     *)
(* any order.                                                              *)
(***************************************************************************)
InitOverlap ==
    /\ InitSession
    /\ InitResolverIdle
    /\ settings \in [keepAudio : {TRUE}, includeAudioFileLink : {FALSE},
                     insertTranscriptLocation : Placements,
                     defaultNoteFolder : {<<>>},
                     recordingFilePath : {RecordingFolder}]
    /\ saved = settings
    /\ userPref = settings.insertTranscriptLocation
    /\ vault = {AudioA}
    /\ folders = {NotesFolder}
    /\ active = "root"
    /\ hour \in Hours
    /\ jobs = <<>>
    /\ nJobs = 0
    /\ kept = {}
    /\ writing = FALSE
    /\ transcript = 0
    /\ notices = {}

\* the command as it would be if the .catch after a failed findFilePath left
\* this.writing set
commandGenerateTranscriptAgainSetsGuard(text) ==
    /\ active # "none"
    /\ Len(jobs) < MaxJobs
    /\ nJobs' = nJobs + 1
    /\ \E r \in findFilePath(text) :
          IF r.status = "ok"
          THEN /\ jobs' = Append(jobs, NewJob("command", TRUE, settings.keepAudio,
                                             settings.includeAudioFileLink, r.path, "cmd_exists"))
               /\ UNCHANGED writing
          ELSE /\ jobs' = Append(jobs, Say(NewJob("command", TRUE, settings.keepAudio,
                                                 settings.includeAudioFileLink, <<>>, "done"),
                                          {r.status}))
               /\ writing' = TRUE
    /\ UNCHANGED <<sessVars, resVars, settings, saved, userPref, kept, vault, folders, active,
                   hour, transcript, notices>>

\* commandGenerateTranscript(editor) with earlier invocations still pending:
\* findFilePath settles and its .then or the .catch runs before any other
\* callback
commandGenerateTranscriptAgain(text) ==
    /\ active # "none"
    /\ Len(jobs) < MaxJobs
    /\ nJobs' = nJobs + 1
    /\ \E r \in findFilePath(text) :
          IF r.status = "ok"
          THEN jobs' = Append(jobs, NewJob("command", TRUE, settings.keepAudio,
                                          settings.includeAudioFileLink, r.path, "cmd_exists"))
          ELSE jobs' = Append(jobs, Say(NewJob("command", TRUE, settings.keepAudio,
                                              settings.includeAudioFileLink, <<>>, "done"),
                                       {r.status}))
    /\ UNCHANGED <<sessVars, resVars, settings, saved, userPref, kept, vault, folders, active,
                   hour, writing, transcript, notices>>

\* the Transcribe button of a recording modal, with earlier invocations
\* still pending: handleAudioRecording up to `await saveFile(...)`
handleAudioRecordingAgain(keepAudio) ==
    /\ Len(jobs) < MaxJobs
    /\ nJobs' = nJobs + 1
    /\ LET count == FirstFree(normalizePath(settings.recordingFilePath), "rec", Period(hour), 1)
           file == normalizePath(settings.recordingFilePath \o <<RecSeg(Period(hour), count)>>)
       IN  jobs' = Append(jobs, NewJob("transcribe", TranscribeButtonFlag, keepAudio, FALSE,
                                       file, "saving"))
    /\ UNCHANGED <<sessVars, resVars, settings, saved, userPref, kept, vault, folders, active,
                   hour, writing, transcript, notices>>

NextOverlap ==
    \/ \E text \in CommandTexts : commandGenerateTranscriptAgain(text)
    \/ handleAudioRecordingAgain(TRUE)
    \/ \E j \in JobIds : Live(j) /\ SaveFileSettles(j)
    \/ \E j \in JobIds : Live(j) /\ AfterSave(j)
    \/ \E j \in JobIds : Live(j) /\ ExistsSettles(j)
    \/ \E j \in JobIds : Live(j) /\ CommandReadSettles(j)
    \/ \E j \in JobIds : Live(j) /\ ReadSettles(j)
    \/ \E j \in JobIds, ok \in BOOLEAN : Live(j) /\ UploadInitSettles(j, ok)
    \/ \E j \in JobIds, ok \in BOOLEAN : Live(j) /\ UploadSettles(j, ok)
    \/ \E j \in JobIds : Live(j) /\ TemplateSettles(j)
    \/ \E j \in JobIds, ok \in BOOLEAN : Live(j) /\ GenerateSettles(j, ok)
    \/ \E j \in JobIds : Live(j) /\ CreateSettles(j)

SpecOverlap == InitOverlap /\ [][NextOverlap]_vars

(***************************************************************************)
(* SpecGuard: the command "Transcribe Audio" while the vault changes under *)
(* it.  FairGuard adds that every await of an invocation settles; nothing  *)
(* obliges the user to run the command or to delete a file.                *)
(***************************************************************************)
\* the user (or a sync service) deletes an audio file of the vault while
\* invocations are suspended at their awaits
UserDeletesFile(f) ==
    /\ f \in vault
    /\ jobs # <<>>
    /\ vault' = vault \ {f}
    /\ UNCHANGED <<sessVars, resVars, settings, saved, userPref, kept, folders, active, hour,
                   nJobs, jobs, writing, transcript, notices>>

\* the awaits of the invocations settle
GuardSteps ==
    \/ \E j \in JobIds : Live(j) /\ ExistsSettles(j)
    \/ \E j \in JobIds : Live(j) /\ CommandReadSettles(j)
    \/ \E j \in JobIds : Live(j) /\ ReadSettles(j)
    \/ \E j \in JobIds, ok \in BOOLEAN : Live(j) /\ UploadInitSettles(j, ok)
    \/ \E j \in JobIds, ok \in BOOLEAN : Live(j) /\ UploadSettles(j, ok)
    \/ \E j \in JobIds : Live(j) /\ TemplateSettles(j)
    \/ \E j \in JobIds, ok \in BOOLEAN : Live(j) /\ GenerateSettles(j, ok)
    \/ \E j \in JobIds : Live(j) /\ CreateSettles(j)

NextGuard ==
    \/ \E text \in CommandTexts : commandGenerateTranscriptAgain(text)
    \/ UserDeletesFile(AudioA)
    \/ GuardSteps

SpecGuard == InitOverlap /\ [][NextGuard]_vars

FairGuard == SpecGuard /\ WF_vars(GuardSteps)

(***************************************************************************)
(* SpecRace: overlapping record-and-transcribe flows while the user also   *)
(* opens and closes notes and edits the recording folder in the settings   *)
(* tab.                                                                    *)
(***************************************************************************)
NextRace ==
    \/ \E k \in BOOLEAN : handleAudioRecordingAgain(k)
    \/ \E j \in JobIds : Live(j) /\ SaveFileSettles(j)
    \/ \E j \in JobIds : Live(j) /\ AfterSave(j)
    \/ \E j \in JobIds : Live(j) /\ ReadSettles(j)
    \/ \E j \in JobIds, ok \in BOOLEAN : Live(j) /\ UploadInitSettles(j, ok)
    \/ \E j \in JobIds, ok \in BOOLEAN : Live(j) /\ UploadSettles(j, ok)
    \/ \E j \in JobIds : Live(j) /\ TemplateSettles(j)
    \/ \E j \in JobIds, ok \in BOOLEAN : Live(j) /\ GenerateSettles(j, ok)
    \/ \E j \in JobIds : Live(j) /\ CreateSettles(j)
    \/ \E j \in JobIds : Live(j) /\ FolderCleanup(j)
    \/ \E a \in {"none", "root"} : SwitchActive(a)
    \/ \E v \in {RecordingFolder, NotesFolder} : SetRecordingFolder(v)

SpecRace == InitOverlap /\ [][NextRace]_vars

\* const text = editor.getRange({ line: 0, ch: 0 }, position)
TextBeforeCursor == SubSeq(doc, 1, cursor)

\* bound: tokens in a note
MaxDocLen == 3

\* the refs notes may hold: a.mp3, notes/b.wav, and a%2E.mp3-like encoded and
\* slash-prefixed spellings of a.mp3
Refs == {AudioA, AudioB, <<Seg("audio", "a.mp3", 1)>>, <<EmptySeg, AudioSeg("a.mp3")>>}

Tokens == {Token("wiki", r) : r \in Refs} \cup {Token("md", r) : r \in Refs} \cup {Token("text", <<>>)}

RECURSIVE SeqsUpTo(_, _)
SeqsUpTo(S, n) == IF n = 0 THEN {<<>>} ELSE LET shorter == SeqsUpTo(S, n - 1) IN shorter \cup {Append(q, x) : q \in shorter, x \in S}

\* another file named a.mp3, in the folder notes
AudioA2 == <<Dir("notes"), AudioSeg("a.mp3")>>

\* a folder of the vault root whose name ends in .mp3: the same path as
\* AudioA, held by a TFolder
AudioNamedFolder == AudioA

InitResolver ==
    /\ InitSession
    /\ settings = [keepAudio |-> TRUE, includeAudioFileLink |-> FALSE,
                   insertTranscriptLocation |-> "newNote", defaultNoteFolder |-> <<>>,
                   recordingFilePath |-> RecordingFolder]
    /\ saved = settings
    /\ userPref = "newNote"
    /\ vault \in SUBSET {AudioA, AudioB, AudioA2}
    /\ folders \in {{NotesFolder}, {NotesFolder, AudioNamedFolder}}
    /\ vault \cap folders = {}
    /\ active = "root"
    /\ hour = 0
    /\ jobs = <<>>
    /\ nJobs = 0
    /\ kept = {}
    /\ writing = FALSE
    /\ transcript = 0
    /\ notices = {}
    /\ doc \in SeqsUpTo(Tokens, MaxDocLen)
    /\ cursor \in 0..Len(doc)
    /\ found = [status |-> "none", path |-> <<>>]
    /\ editor = <<>>
    /\ scan = ScanIdle

\* findFilePath(editor.getRange(start, cursor), regex) settles
FindFilePath ==
    /\ found.status = "none"
    /\ found' \in findFilePath(TextBeforeCursor)
    /\ UNCHANGED <<sessVars, pipeVars, doc, cursor, editor, scan>>

NextResolver == FindFilePath

SpecResolver == InitResolver /\ [][NextResolver]_vars

(***************************************************************************)
(* SpecNewLine: inline placement.  getNextNewLine(editor, ln) applied to   *)
(* bounded notes and cursor lines, one step per evaluation of its while    *)
(* condition, followed by editor.replaceRange at the returned line.        *)
(* FairNewLine adds that the synchronous code runs on.                      *)
(***************************************************************************)
\* bound: lines of the note
MaxLines == 3
\* bound: characters of a line
MaxLineLen == 1

\* a character that trim() keeps, and one that it removes
Chars == {"x", " "}
\* the text replaceRange inserts
TranscriptText == <<"T">>

EditorLines == SeqsUpTo(Chars, MaxLineLen)
Documents == SeqsUpTo(EditorLines, MaxLines) \ {<<>>}

\* String.prototype.trim
RECURSIVE trimStart(_)
trimStart(s) == IF s # <<>> /\ Head(s) = " " THEN trimStart(Tail(s)) ELSE s

RECURSIVE trimEnd(_)
trimEnd(s) == IF s # <<>> /\ s[Len(s)] = " " THEN trimEnd(SubSeq(s, 1, Len(s) - 1)) ELSE s

trim(s) == trimEnd(trimStart(s))

\* editor.lastLine(), editor.getLine(n): lines count from 0
lastLine(ed) == Len(ed) - 1

getLine(ed, n) == ed[n + 1]

\* editor.setLine(n, editor.getLine(n) + '\n'): line n keeps its text and
\* an empty line follows it
setLine(ed, n) == SubSeq(ed, 1, n + 1) \o << <<>> >> \o SubSeq(ed, n + 2, Len(ed))

\* a note is open in the editor and editor.getCursor("to").line is ln
InitNewLine ==
    /\ InitSession
    /\ InitPipelineIdle
    /\ doc = <<>>
    /\ cursor = 0
    /\ found = [status |-> "none", path |-> <<>>]
    /\ editor \in Documents
    /\ \E ln \in 0..lastLine(editor) :
          scan = [pc |-> "scan", ln |-> ln, newLine |-> ln, lines0 |-> editor]

\* the loop of getNextNewLine as it would be without the setLine call
getNextNewLineNoAppend ==
    /\ scan.pc = "scan"
    /\ IF scan.newLine > lastLine(editor)
       THEN /\ scan' = [scan EXCEPT !.pc = "threw"]
            /\ UNCHANGED editor
       ELSE IF Len(trim(getLine(editor, scan.newLine))) > 0
       THEN /\ UNCHANGED editor
            /\ scan' = [scan EXCEPT !.newLine = @ + 1]
       ELSE /\ scan' = [scan EXCEPT !.pc = "returned"]
            /\ UNCHANGED editor
    /\ UNCHANGED <<sessVars, pipeVars, doc, cursor, found>>

\* getNextNewLine: one evaluation of the while condition, with the loop
\* body or the return; getLine of a line the editor does not hold throws
getNextNewLine ==
    /\ scan.pc = "scan"
    /\ IF scan.newLine > lastLine(editor)
       THEN /\ scan' = [scan EXCEPT !.pc = "threw"]
            /\ UNCHANGED editor
       ELSE IF Len(trim(getLine(editor, scan.newLine))) > 0
       THEN /\ editor' = IF scan.newLine = lastLine(editor)
                         THEN setLine(editor, scan.newLine) ELSE editor
            /\ scan' = [scan EXCEPT !.newLine = @ + 1]
       ELSE /\ scan' = [scan EXCEPT !.pc = "returned"]
            /\ UNCHANGED editor
    /\ UNCHANGED <<sessVars, pipeVars, doc, cursor, found>>

\* editor.replaceRange(this.transcript, { line: LnToWrite, ch: 0 })
replaceRange ==
    /\ scan.pc = "returned"
    /\ editor' = [editor EXCEPT ![scan.newLine + 1] = TranscriptText \o @]
    /\ scan' = [scan EXCEPT !.pc = "inserted"]
    /\ UNCHANGED <<sessVars, pipeVars, doc, cursor, found>>

NextNewLine ==
    \/ getNextNewLine
    \/ replaceRange

SpecNewLine == InitNewLine /\ [][NextNewLine]_vars

\* the loop and the call that follows it are synchronous code: they run on
FairNewLine == SpecNewLine /\ WF_vars(NextNewLine)

LinkTokens(text) == {i \in DOMAIN text : text[i].kind \in {"wiki", "md"}}

LastLink(text) == text[CHOOSE i \in LinkTokens(text) : \A k \in LinkTokens(text) : k <= i]

\* C6: once findFilePath has settled on a text that holds links, the
\* filename it resolved is that of the last link before the cursor, whichever
\* of the two syntaxes that link uses.
C6_ResolvesLastLink ==
    (found.status # "none" /\ LinkTokens(TextBeforeCursor) # {})
        => ScanFilename(TextBeforeCursor) = normalizePath(decodeURI(LastLink(TextBeforeCursor).ref))

\* C14: once findFilePath has settled on a text that holds a link, (a) a
\* decoded path that exists in the vault verbatim is returned, (b) otherwise
\* a stored file of the same filename is returned, (c) otherwise the
\* outcome is the file-not-found error; and a path returned is always that
\* of a stored audio file.
C14_ResolutionOrder ==
    LET filename == ScanFilename(TextBeforeCursor)
        byName == {f \in vault : BaseName(f) = BaseName(filename)}
    IN  (found.status # "none" /\ filename # <<>>) =>
            /\ filename \in vault \cup folders
                   => found = [status |-> "ok", path |-> filename]
            /\ (filename \notin vault \cup folders /\ byName # {})
                   => (found.status = "ok" /\ found.path \in byName)
            /\ (filename \notin vault \cup folders /\ byName = {})
                   => found.status = "File not found"
            /\ found.status = "ok" => found.path \in vault

\* the invocations that ran transcribeRecording to its end
Transcribed == {j \in DOMAIN jobs : jobs[j].trStarted /\ jobs[j].pc \in {"done", "har_deleted"}}

\* C5: the pipeline deletes the source audio file iff the text was placed
\* and keep-audio is false: a deleted file implies a successful placement
\* with keep-audio false, and an invocation that placed its text with
\* keep-audio false has left no source file, for the modal and the command.
C5_DeletedIffPlacedAndNotKept ==
    \A j \in DOMAIN jobs :
        /\ jobs[j].deleted => (jobs[j].placed # "none" /\ ~jobs[j].keepAudio)
        /\ (j \in Transcribed /\ jobs[j].placed # "none" /\ ~jobs[j].keepAudio)
              => jobs[j].file \notin vault

\* C7: the placement preference of the settings, in memory and as last
\* persisted, is the one the user chose, whatever transcribeRecording did.
C7_FallbackKeepsPreference ==
    /\ settings.insertTranscriptLocation = userPref
    /\ saved.insertTranscriptLocation = userPref

\* C8: the path chosen for a new note did not exist in the vault when it was
\* chosen, so vault.create never meets an existing file.
C8_ChosenTitleIsFree == \A j \in DOMAIN jobs : ~jobs[j].collides

\* C9: a session ended with the stop button never runs transcribeRecording
\* (no upload, generation, placement or cleanup), and the files such sessions
\* saved stay in the vault, whatever keep-audio is.
C9_StopButtonOnlySaves ==
    /\ \A j \in DOMAIN jobs :
          jobs[j].entry = "stop" =>
              /\ ~jobs[j].trStarted
              /\ ~jobs[j].uploaded
              /\ ~jobs[j].generated
              /\ jobs[j].placed = "none"
              /\ ~jobs[j].deleted
    /\ kept \subseteq vault

\* a session ended with the stop button, keep-audio unticked, has run to its
\* end and its file is in the vault
C9_Witness_StopSavedKeepAudioOff ==
    \E j \in DOMAIN jobs :
        /\ jobs[j].entry = "stop"
        /\ jobs[j].pc = "done"
        /\ jobs[j].savedFile
        /\ ~jobs[j].keepAudio
        /\ ~settings.keepAudio
        /\ jobs[j].file \in vault

\* C12: the generation request is issued only after the upload of the same
\* invocation returned a file URI; an invocation whose upload returned no
\* upload URL or no file URI ends with the upload's message, having
\* assembled no prompt, requested no generation and placed nothing.
C12_GenerationOnlyAfterUpload ==
    \A j \in DOMAIN jobs :
        /\ (jobs[j].pc \in {"tr_template", "tr_generate"} \/ jobs[j].generated)
               => jobs[j].uploaded
        /\ jobs[j].failed = "upload" =>
               /\ jobs[j].pc \in {"done", "har_deleted"}
               /\ ~jobs[j].uploaded
               /\ ~jobs[j].generated
               /\ jobs[j].placed = "none"
               /\ jobs[j].notePath = <<>>
               /\ jobs[j].msgs \cap {"Failed to retrieve upload URL",
                                     "File URI not returned from upload"} # {}

\* C12 witness: an invocation ended because the upload returned no file URI.
C12_Witness_UploadWithoutUri ==
    \E j \in DOMAIN jobs :
        /\ jobs[j].failed = "upload"
        /\ "File URI not returned from upload" \in jobs[j].msgs

\* C13: an invocation sends at most one generation request; when the
\* response carries no text the invocation ends, nothing is placed in any
\* document and the user is shown the error's text.
C13_GenerationFailureNotRetried ==
    \A j \in DOMAIN jobs :
        /\ jobs[j].genRequests <= 1
        /\ jobs[j].failed = "generate" =>
               /\ jobs[j].pc \in {"done", "har_deleted"}
               /\ jobs[j].genRequests = 1
               /\ jobs[j].placed = "none"
               /\ jobs[j].notePath = <<>>
               /\ "No text returned from AI model." \in jobs[j].msgs

\* C13 witness: an invocation ended on a generation response without text.
C13_Witness_NoTextReturned ==
    \E j \in DOMAIN jobs : jobs[j].failed = "generate" /\ jobs[j].pc \in {"done", "har_deleted"}

\* the command's invocations that are inside transcribeRecording
RunningCommands ==
    {j \in DOMAIN jobs : jobs[j].entry = "command" /\ jobs[j].trStarted /\ jobs[j].pc # "done"}

\* C15: an invocation of the command whose text holds no link, or a link to
\* no stored file, ends in the step that starts it with the resolver's
\* message as its notice, has not entered the pipeline, and that step
\* leaves the guard, the vault, the folders, the settings and the
\* transcript as they were.
C15_ResolverFailureChangesNothing ==
    [][(Len(jobs') > Len(jobs) /\ jobs'[Len(jobs')].file = <<>>) =>
          /\ jobs'[Len(jobs')].pc = "done"
          /\ ~jobs'[Len(jobs')].trStarted
          /\ jobs'[Len(jobs')].msgs \in {{"No file found in the text."}, {"File not found"}}
          /\ SubSeq(jobs', 1, Len(jobs)) = jobs
          /\ UNCHANGED <<writing, vault, folders, settings, saved, transcript>>]_vars

\* C15 witness: the command ended on "File not found" while another
\* invocation of it was inside the pipeline, the guard set.
C15_Witness_FileNotFoundWhileBusy ==
    /\ writing
    /\ RunningCommands # {}
    /\ \E j \in DOMAIN jobs : jobs[j].msgs = {"File not found"} /\ ~jobs[j].trStarted

\* C16: at most one invocation of the command is inside the pipeline at any
\* time, the guard is set while one is, and an invocation turned away by
\* the guard has shown "Generator is already in progress." and never
\* entered the pipeline.
C16_OneCommandPipelineAtATime ==
    /\ Cardinality(RunningCommands) <= 1
    /\ RunningCommands # {} => writing
    /\ \A j \in DOMAIN jobs :
          jobs[j].failed = "busy" =>
             /\ ~jobs[j].trStarted
             /\ jobs[j].pc = "done"
             /\ "Generator is already in progress." \in jobs[j].msgs

\* C16 witness: an invocation was turned away while another one is inside
\* the pipeline.
C16_Witness_SecondTurnedAway ==
    /\ RunningCommands # {}
    /\ \E j \in DOMAIN jobs : jobs[j].failed = "busy"

\* C28: a note created for a transcript begins with the embed of the audio
\* file iff the invocation's keep-audio and include-link are both set; no
\* created note embeds a file that the same invocation deleted.
C28_EmbedIffKeptAndLinked ==
    \A j \in DOMAIN jobs :
        jobs[j].placed = "new" =>
            /\ jobs[j].embed <=> (jobs[j].keepAudio /\ jobs[j].includeLink)
            /\ jobs[j].embed => ~jobs[j].deleted

\* C25: the record-and-transcribe flow is never turned away by the guard,
\* enters the pipeline once its file is saved whatever the guard says, and
\* no step of it changes the guard.
C25_GuardIgnoredByModalFlow ==
    [][\A j \in DOMAIN jobs' :
          jobs'[j].entry # "command" =>
             /\ jobs'[j].failed # "busy"
             /\ (j \notin DOMAIN jobs \/ jobs'[j] # jobs[j]) => writing' = writing
             /\ (j \in DOMAIN jobs /\ jobs[j].pc = "har_saved" /\ jobs'[j] # jobs[j])
                    => jobs'[j].trStarted]_vars

\* C25 witness: a record-and-transcribe flow is inside the pipeline, entered
\* while an invocation of the command was inside it with the guard set.
C25_Witness_ModalFlowBesideCommand ==
    /\ writing
    /\ RunningCommands # {}
    /\ \E j \in DOMAIN jobs, c \in RunningCommands :
          /\ c < j
          /\ jobs[j].entry = "transcribe"
          /\ jobs[j].pc = "tr_read"
          /\ jobs[c].pc \notin {"cmd_exists", "cmd_read"}

\* C26: an invocation places its text at the target it selected when
\* transcribeRecording began: inline with a view and the inline preference,
\* a new note otherwise.
C26_PlacedAtSelectedTarget ==
    \A j \in DOMAIN jobs :
        jobs[j].placed # "none" => jobs[j].placed = jobs[j].target

\* the folder a saved file lies in (TFile.parent)
ParentFolder(path) == SubSeq(path, 1, Len(path) - 1)

\* C29: the step that follows the deletion of the audio file deletes the
\* folder that held the file iff that folder is left without children, and
\* deletes no other folder and no file.
C29_FolderDeletedIffEmptied ==
    [][\A j \in DOMAIN jobs :
          (jobs[j].pc = "har_deleted" /\ jobs'[j].pc = "done") =>
             LET dir == ParentFolder(jobs[j].file)
             IN  /\ vault' = vault
                 /\ (folders \ folders') \subseteq {dir}
                 /\ (dir \in folders /\ Children(dir) = {}) => dir \notin folders']_vars

\* the blank lines of the note at or after the cursor line, as the note was
\* when getNextNewLine was called
BlankFromCursor ==
    {i \in scan.ln..lastLine(scan.lines0) : trim(getLine(scan.lines0, i)) = <<>>}

\* the note getNextNewLine must leave, and the line it must return
ExpectedLines == IF BlankFromCursor = {} THEN Append(scan.lines0, <<>>) ELSE scan.lines0

ExpectedLine ==
    IF BlankFromCursor = {} THEN Len(scan.lines0)
    ELSE CHOOSE i \in BlankFromCursor : \A k \in BlankFromCursor : i <= k

ScanRight ==
    /\ scan.pc # "threw"
    /\ scan.pc \in {"returned", "inserted"} => scan.newLine = ExpectedLine
    /\ scan.pc = "returned" => editor = ExpectedLines
    /\ scan.pc = "inserted" =>
          editor = [ExpectedLines EXCEPT ![ExpectedLine + 1] = TranscriptText \o @]

\* C27: getNextNewLine returns for every note and cursor line; it returns
\* the smallest line index at or after the cursor line whose line is blank,
\* having appended one blank line when no line from the cursor line on was
\* blank and changed no other line, and the text is inserted at the start
\* of that line.
C27_InsertsAtFirstBlankLine == []ScanRight /\ <>(scan.pc = "inserted")

\* C27 witness: the scan started above the last line, passed non-blank lines
\* down to the last one, appended a line and the text was inserted there.
C27_Witness_AppendedAfterLastLine ==
    /\ scan.pc = "inserted"
    /\ BlankFromCursor = {}
    /\ scan.newLine > scan.ln + 1
    /\ Len(editor) = Len(scan.lines0) + 1
    /\ editor[Len(editor)] = TranscriptText

\* C31: in an open session with no getUserMedia call pending, none failed
\* and no stop requested, isRecording is true exactly when the held recorder
\* is recording: no recorder captures while the modal shows Paused or Ready
\* to Record.
C31_FlagAgreesWithDevice ==
    (modalOpen /\ pendingAcq = 0 /\ ~acqFailed /\ calls = <<>>) =>
        (isRecording <=> Capturing)

\* C32: the guard is set only while an invocation of the command is inside
\* the pipeline, and whenever it is set it is cleared again later.
C32_GuardReleased ==
    /\ [](writing => RunningCommands # {})
    /\ (writing ~> ~writing)

\* the session was ended by Stop or Transcribe: the stop event delivered
\* the artifact to a stopRecording future and closed the modal
EndedByStop == ~modalOpen /\ \E k \in DOMAIN calls : calls[k].state = "blob"

\* C33: once the user has ended the session with Stop or Transcribe, the
\* promise returned by open() is eventually resolved or rejected.
C33_OpenFutureSettled == EndedByStop ~> (openP # "pending")

\* C34: when Stop or Transcribe is pressed again before the stop event
\* arrives, the artifact goes to the handler of the earliest press still
\* waiting (so with that press's transcribe choice), and every
\* stopRecording future is settled in the end.
C34_RepeatedStopDeliversOnce ==
    /\ [](\A k \in DOMAIN calls :
             calls[k].state = "blob" => \A j \in 1..(k - 1) : calls[j].state # "pending")
    /\ (Len(calls) >= 2) ~> (\A k \in DOMAIN calls : calls[k].state # "pending")

\* C35: an invocation that reaches the inline placement branch holds the
\* view that was active when it started, and inserts its text there.
C35_InlineBranchHasView ==
    \A j \in DOMAIN jobs :
        (jobs[j].placed = "inline" \/ jobs[j].failed = "placement") =>
            /\ jobs[j].view # "none"
            /\ jobs[j].placed = "inline"

====
